---- MODULE Spec2Model ----
(***************************************************************************)
(* Change detection and update broadcast of the Vault secrets demo server. *)
(*                                                                         *)
(* The watched directory, the Snapshot Reader (readSecretsFromDirectory),  *)
(* the signal sources of the "ultra-aggressive" server revision (chokidar  *)
(* watchers, content poller, inode monitor, symlink monitor), the socket   *)
(* broadcaster, and the kubectl-driven debounced reconciler.               *)
(***************************************************************************)
EXTENDS Integers, Sequences, FiniteSets, TLC

\* ------------------------------------------------------------------------
\* Bounds of the model
\* ------------------------------------------------------------------------
\* number of changes the environment makes to the watched directory
MaxFsChanges == 2
\* the same, in the runs that check delivery under fair scheduling
MaxWatchedChanges == 1
\* number of recheck signals the kubectl watch delivers
MaxSignals == 3

\* ------------------------------------------------------------------------
\* The watched directory
\* ------------------------------------------------------------------------
\* entry names, in the order readdirSync lists them
NameOrder == <<"a", "b">>
Names == {NameOrder[i] : i \in 1..Len(NameOrder)}

\* raw file contents as character sequences (whitespace matters to trim())
RawContents == {<<"x">>, <<"x", " ">>, <<"y">>}

Absent == [kind |-> "absent"]

\* what a directory entry can be:
\*   file      regular file
\*   noperm    regular file whose readFileSync fails (EACCES)
\*   dir       subdirectory
\*   symfile   symlink to a regular file
\*   symdir    symlink to a directory (the ..data link of a projected volume)
\*   dangling  symlink whose target is gone (statSync throws ENOENT)
FileKinds == {"file", "noperm", "symfile"}
DirKinds == {"dir", "symdir"}
Kinds == FileKinds \cup DirKinds \cup {"dangling"}

\* largest modification time: initial entries carry 1, the k-th change k + 1
MaxMtime == MaxFsChanges + 1

DirEntries == [kind : Kinds, raw : RawContents, mtime : 1..MaxMtime, ino : 1..2]

Directories == [Names -> DirEntries \cup {Absent}]

EmptyDirectory == [n \in Names |-> Absent]

\* SECRETS_DIR itself does not exist (the volume is not mounted)
MissingDirectory == [n \in Names |-> [kind |-> "nodir"]]

\* ------------------------------------------------------------------------
\* Snapshot Reader
\* ------------------------------------------------------------------------
IsSpace(ch) == ch = " "

RECURSIVE TrimLeft(_)
TrimLeft(s) ==
  IF s = <<>> THEN s
  ELSE IF IsSpace(Head(s)) THEN TrimLeft(Tail(s)) ELSE s

RECURSIVE TrimRight(_)
TrimRight(s) ==
  IF s = <<>> THEN s
  ELSE IF IsSpace(s[Len(s)]) THEN TrimRight(SubSeq(s, 1, Len(s) - 1)) ELSE s

\* String.prototype.trim
Trim(s) == TrimRight(TrimLeft(s))

\* Date.prototype.toISOString: a string, no longer a Date
ToISOString(t) == <<"iso", t>>

\* fs.existsSync(SECRETS_DIR)
ExistsSync(d) == d # MissingDirectory

\* fs.readdirSync(SECRETS_DIR)
Readdir(d) == SelectSeq(NameOrder, LAMBDA n : d[n] # Absent)

\* fs.statSync(filePath) follows symlinks; it throws on a dangling link
StatThrows(e) == e.kind = "dangling"

\* stats.isFile() of the followed entry
StatIsFile(e) == e.kind \in FileKinds

\* fs.readFileSync(filePath, 'utf8') throws when the file is unreadable
ReadFileThrows(e) == e.kind = "noperm"

\* the Secret Entry recorded for one regular file
SecretEntry(e) ==
  IF ReadFileThrows(e)
  THEN [content |-> <<"Error reading file">>, lastModified |-> ToISOString(e.mtime),
        size |-> Len(e.raw), error |-> TRUE]
  ELSE [content |-> Trim(e.raw), lastModified |-> ToISOString(e.mtime),
        size |-> Len(e.raw), error |-> FALSE]

EmptySnapshot == <<>>

\* the files.forEach loop: a statSync failure leaves the loop through the
\* outer catch with the entries collected so far
RECURSIVE ReadEntries(_, _, _)
ReadEntries(d, files, secrets) ==
  IF files = <<>> THEN secrets
  ELSE LET file == Head(files)
           e == d[file]
       IN IF StatThrows(e) THEN secrets
          ELSE IF StatIsFile(e)
               THEN ReadEntries(d, Tail(files), secrets @@ (file :> SecretEntry(e)))
               ELSE ReadEntries(d, Tail(files), secrets)

readSecretsFromDirectory(d) ==
  IF ExistsSync(d) THEN ReadEntries(d, Readdir(d), EmptySnapshot) ELSE EmptySnapshot

\* ------------------------------------------------------------------------
\* State
\* ------------------------------------------------------------------------
VARIABLES
  fs,             \* the watched directory
  fsChanges,      \* number of changes the environment has made to it
  fsBudget,       \* number of changes the environment makes at most
  snapshot,       \* SpecReader: the snapshot the reader returned
  alive,          \* the server process is running
  connected,      \* sockets currently connected
  lastMsg,        \* per connected socket: the last 'secrets-update' payload sent to it
  lastActivity,   \* per connected socket: the last 'activity-update' payload sent to it
  lastHeartbeat,  \* per connected socket: the last 'heartbeat' payload sent to it
  watchEvents,    \* chokidar events raised and not yet handled
  timers,         \* pending setTimeout refresh callbacks, per label
  activityLog,    \* activityLog, newest first
  lastSecretHash, \* pollSecrets: lastSecretHash
  lastInodeData,  \* monitorInodes: lastInodeData
  reads,          \* calls of readSecretsFromDirectory so far (0, 1, many)
  bcasts,         \* number of io.emit('secrets-update') calls so far
  lastPoll,       \* what the last pollSecrets tick compared and concluded
  debounceTimers, \* pending debounce timeouts (updateTimeoutId is the newest)
  pendingUpdateCount, \* pendingUpdateCount
  retryTimer,     \* attempt number of the pending retry timeout, 0 when none
  lastKnown,      \* the last known snapshot of the reconciler
  signals,        \* recheck signals delivered so far
  burst,          \* signals since the last debounce expiry
  lastRead,       \* who made the last reconciler read, and in which state
  kubectlWatcher, \* the spawned kubectl --watch process: running or exited
  client,         \* the browser app: what it displays and its initial fetch
  config,         \* process.env and the constants the server derived from it
  shutdown        \* SIGINT received or not, and the watchers closed so far

vars == <<fs, fsChanges, fsBudget, snapshot, alive, connected, lastMsg, lastActivity, lastHeartbeat, watchEvents, timers,
          activityLog, lastSecretHash, lastInodeData, reads, bcasts, lastPoll,
          debounceTimers, pendingUpdateCount, retryTimer, lastKnown, signals, burst,
          lastRead, kubectlWatcher, client, config, shutdown>>

recVars == <<debounceTimers, pendingUpdateCount, retryTimer, lastKnown, signals,
             burst, lastRead, kubectlWatcher, client, config, shutdown>>

NoSnapshot == [none |-> TRUE]

\* the string '' that lastSecretHash starts as
EmptyString == <<>>

Clients == {"c1", "c2"}

NoMsg == [action |-> "nothing"]

\* --- configuration ----------------------------------------------------------
Unset == "undefined"

\* a || b: the empty string is falsy, like undefined
OrElse(value, default) == IF value \in {Unset, ""} THEN default ELSE value

\* const PORT = process.env.PORT || 3000
PORT(env) == OrElse(env.PORT, "3000")

\* const SECRETS_DIR = process.env.SECRETS_DIR || '/secrets'
SECRETS_DIR(env) == OrElse(env.SECRETS_DIR, "/secrets")

NoEnvironment == [PORT |-> Unset, SECRETS_DIR |-> Unset, SECRETS_PATH |-> Unset]

LoadedConfig(env) ==
  [env |-> env, loaded |-> TRUE, port |-> PORT(env), secretsDir |-> SECRETS_DIR(env),
   watched |-> SECRETS_DIR(env)]

\* a server started with nothing set in its environment
DefaultConfig == LoadedConfig(NoEnvironment)

\* no SIGINT so far: every watcher is open
NotRequested == [requested |-> FALSE, closed |-> {}]

\* the React app right after mounting: useState({}) for the secrets, the
\* initial fetch('/api/secrets') sent and not yet answered
ClientMounted ==
  [secrets |-> <<>>, applied |-> NoMsg, fetch |-> "pending", response |-> <<>>]

\* the labels of the delayed refresh callbacks of the directory watcher
TimerLabels == {"directory-change", "directory-removal", "kubernetes-mount"}

NoTimers == [l \in TimerLabels |-> 0]

\* the logical clock behind Date.now() and the modification times
Now == fsChanges + 1

serverVars == <<alive, connected, lastMsg, lastActivity, lastHeartbeat, watchEvents, timers, activityLog,
                lastSecretHash, lastInodeData, reads, bcasts, lastPoll>>

\* ------------------------------------------------------------------------
\* SpecReader: the Snapshot Reader applied to every bounded directory
\* ------------------------------------------------------------------------
NoRead == [by |-> "nobody", inFlight |-> FALSE, changed |-> FALSE, count |-> 0]

ReconcilerIdle ==
  /\ debounceTimers = 0
  /\ pendingUpdateCount = 0
  /\ retryTimer = 0
  /\ lastKnown = NoSnapshot
  /\ signals = 0
  /\ burst = 0
  /\ lastRead = NoRead
  /\ kubectlWatcher = "running"
  /\ client = ClientMounted
  /\ config = DefaultConfig
  /\ shutdown = NotRequested

ServerIdle ==
  /\ alive = FALSE
  /\ connected = {}
  /\ lastMsg = [c \in Clients |-> NoMsg]
  /\ lastActivity = [c \in Clients |-> NoMsg]
  /\ lastHeartbeat = [c \in Clients |-> NoMsg]
  /\ watchEvents = {}
  /\ timers = NoTimers
  /\ activityLog = <<>>
  /\ lastSecretHash = EmptyString
  /\ lastInodeData = <<>>
  /\ reads = 0
  /\ bcasts = 0
  /\ lastPoll = NoSnapshot
  /\ ReconcilerIdle

InitReader ==
  /\ fs \in Directories
  /\ fsChanges = 0
  /\ fsBudget = 0
  /\ snapshot = NoSnapshot
  /\ ServerIdle

ReadDirectory ==
  /\ snapshot = NoSnapshot
  /\ snapshot' = readSecretsFromDirectory(fs)
  /\ UNCHANGED <<fs, fsChanges, fsBudget, serverVars, recVars>>

NextReader == ReadDirectory

SpecReader == InitReader /\ [][NextReader]_vars

\* C10: a subdirectory or a symlink to a directory never appears in a
\* snapshot the Snapshot Reader returns, and a symlink to a regular file
\* is read through and does appear in it.
C10_DirectoriesExcludedSymlinkFilesAppear ==
  snapshot # NoSnapshot =>
    \A n \in Names :
      /\ fs[n].kind \in DirKinds => n \notin DOMAIN snapshot
      /\ fs[n].kind = "symfile" =>
           /\ n \in DOMAIN snapshot
           /\ snapshot[n].content = Trim(fs[n].raw)

\* C11: the Snapshot Reader records every entry: a file it can read with its
\* content, an entry whose stat or read fails with error = TRUE and a
\* synthetic message, and it goes on to the remaining entries.
C11_EntryErrorsRecorded ==
  snapshot # NoSnapshot =>
    \A n \in Names :
      /\ fs[n].kind \in {"file", "symfile"} =>
           /\ n \in DOMAIN snapshot
           /\ ~snapshot[n].error
           /\ snapshot[n].content = Trim(fs[n].raw)
      /\ fs[n].kind \in {"noperm", "dangling"} =>
           /\ n \in DOMAIN snapshot
           /\ snapshot[n].error

\* ------------------------------------------------------------------------
\* Activity log and broadcaster
\* ------------------------------------------------------------------------
MAX_ACTIVITY_ENTRIES == 100

\* the entry addActivityEntry builds (id is the timestamp plus a random
\* fraction and is not modelled)
ActivityEntry(action, file, secrets) ==
  [timestamp |-> Now, action |-> action, file |-> file,
   secretCount |-> Cardinality(DOMAIN secrets)]

\* an append at the wrong end of the log
addActivityEntryAtEnd(log, action, file, secrets) ==
  log \o <<ActivityEntry(action, file, secrets)>>

\* an append that never evicts
addActivityEntryKeepsAll(log, action, file, secrets) ==
  <<ActivityEntry(action, file, secrets)>> \o log

\* activityLog.unshift(entry), then the slice to the newest entries
addActivityEntry(log, action, file, secrets) ==
  LET unshifted == <<ActivityEntry(action, file, secrets)>> \o log
  IN IF Len(unshifted) > MAX_ACTIVITY_ENTRIES
     THEN SubSeq(unshifted, 1, MAX_ACTIVITY_ENTRIES)
     ELSE unshifted

\* payload of a 'secrets-update' message
\* an update that carries only the entry of the file it is about
SecretsUpdateDelta(action, file, secrets) ==
  [action |-> action, file |-> file,
   secrets |-> [n \in DOMAIN secrets \cap {file} |-> secrets[n]]]

\* the 'secrets-update' payload: the whole object the reader returned
SecretsUpdate(action, file, secrets) ==
  [action |-> action, file |-> file, secrets |-> secrets]

\* activityLog.slice(0, 10)
ACTIVITY_SLICE == 10

ActivitySlice(log) ==
  SubSeq(log, 1, IF Len(log) < ACTIVITY_SLICE THEN Len(log) ELSE ACTIVITY_SLICE)

\* the 'activity-update' payload a new socket is sent
ActivityUpdate(log) == [activity |-> ActivitySlice(log)]

\* a payload whose slice was taken before the entry was added
ActivityBroadcastStale(log) == [activity |-> ActivitySlice(Tail(log)), newEntry |-> log[1]]

\* the 'activity-update' payload that follows a broadcast: the slice and the
\* entry just added
ActivityBroadcast(log) == [activity |-> ActivitySlice(log), newEntry |-> log[1]]

\* io.emit: every connected socket receives the payload
IoEmit(msgs, sockets, payload) ==
  [c \in Clients |-> IF c \in sockets THEN payload ELSE msgs[c]]

\* socket.emit: the one socket receives the payload
SocketEmit(msgs, c, payload) == [msgs EXCEPT ![c] = payload]

CountRead == IF reads < 2 THEN reads + 1 ELSE 2

\* ------------------------------------------------------------------------
\* Spec: the server process and the directory it watches
\* ------------------------------------------------------------------------
WatchEvent(type, file) == [type |-> type, file |-> file]

FileEventTypes == {"add", "change", "unlink"}
DirEventTypes == {"addDir", "unlinkDir"}
WatchEvents == [type : FileEventTypes \cup DirEventTypes, file : Names]

InitialFile == [kind |-> "file", raw |-> <<"x">>, mtime |-> 1, ino |-> 1]

\* the directory at start-up: empty, or already holding a secret
InitialDirectories ==
  {EmptyDirectory, [EmptyDirectory EXCEPT !["a"] = InitialFile]}

\* chokidar.watch(..., {ignoreInitial: false}) raises 'add' for every file
\* that exists when the watcher starts
InitialEvents(d) ==
  {WatchEvent("add", n) : n \in {m \in Names : d[m] # Absent /\ StatIsFile(d[m])}}

ServerStartFrom(directories) ==
  /\ fs \in directories
  /\ fsChanges = 0
  /\ snapshot = NoSnapshot
  /\ alive = TRUE
  /\ connected = {}
  /\ lastMsg = [c \in Clients |-> NoMsg]
  /\ lastActivity = [c \in Clients |-> NoMsg]
  /\ lastHeartbeat = [c \in Clients |-> NoMsg]
  /\ watchEvents = InitialEvents(fs)
  /\ timers = NoTimers
  /\ activityLog = <<>>
  /\ lastSecretHash = EmptyString
  /\ lastInodeData = <<>>
  /\ reads = 0
  /\ bcasts = 0
  /\ lastPoll = NoSnapshot

ServerStart == ServerStartFrom(InitialDirectories)

Init ==
  /\ ServerStart
  /\ ReconcilerIdle
  /\ fsBudget = MaxFsChanges

\* --- the environment: whatever writes the mounted secrets ----------------
\* what the environment writes into files, and where it makes directories
WrittenContents == {<<"x">>, <<"y", " ">>}
DirNames == {"b"}

Raise(type, n) == watchEvents' = watchEvents \cup {WatchEvent(type, n)}

EnvFrame == UNCHANGED <<recVars, fsBudget, snapshot, alive, connected, lastMsg, lastActivity, lastHeartbeat, timers, activityLog,
                        lastSecretHash, lastInodeData, reads, bcasts, lastPoll>>

CreateFile(n, raw) ==
  /\ alive /\ fsChanges < fsBudget
  /\ fs[n] = Absent
  /\ fs' = [fs EXCEPT ![n] = [kind |-> "file", raw |-> raw, mtime |-> Now + 1, ino |-> 1]]
  /\ fsChanges' = fsChanges + 1
  /\ Raise("add", n)
  /\ EnvFrame

WriteFile(n, raw) ==
  /\ alive /\ fsChanges < fsBudget
  /\ fs[n].kind = "file"
  /\ fs' = [fs EXCEPT ![n].raw = raw, ![n].mtime = Now + 1]
  /\ fsChanges' = fsChanges + 1
  /\ Raise("change", n)
  /\ EnvFrame

RemoveFile(n) ==
  /\ alive /\ fsChanges < fsBudget
  /\ fs[n].kind = "file"
  /\ fs' = [fs EXCEPT ![n] = Absent]
  /\ fsChanges' = fsChanges + 1
  /\ Raise("unlink", n)
  /\ EnvFrame

MakeDir(n) ==
  /\ alive /\ fsChanges < fsBudget
  /\ fs[n] = Absent
  /\ fs' = [fs EXCEPT ![n] = [kind |-> "dir", raw |-> <<"x">>, mtime |-> Now + 1, ino |-> 2]]
  /\ fsChanges' = fsChanges + 1
  /\ Raise("addDir", n)
  /\ EnvFrame

RemoveDir(n) ==
  /\ alive /\ fsChanges < fsBudget
  /\ fs[n].kind = "dir"
  /\ fs' = [fs EXCEPT ![n] = Absent]
  /\ fsChanges' = fsChanges + 1
  /\ Raise("unlinkDir", n)
  /\ EnvFrame

\* --- socket.io connections ------------------------------------------------
\* io.on('connection'): the new socket is sent the current secrets
Connection(c) ==
  /\ alive
  /\ c \notin connected
  /\ connected' = connected \cup {c}
  /\ lastMsg' = SocketEmit(lastMsg, c,
                  SecretsUpdate("none", "none", readSecretsFromDirectory(fs)))
  /\ lastActivity' = SocketEmit(lastActivity, c, ActivityUpdate(activityLog))
  /\ UNCHANGED lastHeartbeat
  /\ reads' = CountRead
  /\ UNCHANGED <<recVars, fs, fsChanges, fsBudget, snapshot, alive, watchEvents, timers, activityLog,
                 lastSecretHash, lastInodeData, bcasts, lastPoll>>

Disconnect(c) ==
  /\ alive
  /\ c \in connected
  /\ connected' = connected \ {c}
  /\ lastMsg' = [lastMsg EXCEPT ![c] = NoMsg]
  /\ lastActivity' = [lastActivity EXCEPT ![c] = NoMsg]
  /\ lastHeartbeat' = [lastHeartbeat EXCEPT ![c] = NoMsg]
  /\ UNCHANGED <<recVars, fs, fsChanges, fsBudget, snapshot, alive, watchEvents, timers,
                 activityLog, lastSecretHash, lastInodeData, reads, bcasts, lastPoll>>

\* --- watcher.on('add' | 'change' | 'unlink') ------------------------------
\* the three handlers differ in the action label only
WatcherFileEvent(e, action) ==
  /\ alive
  /\ e \in watchEvents
  /\ LET secrets == readSecretsFromDirectory(fs)
     IN /\ activityLog' = addActivityEntry(activityLog, action, e.file, secrets)
        /\ lastMsg' = IoEmit(lastMsg, connected, SecretsUpdate(action, e.file, secrets))
        /\ lastActivity' = IoEmit(lastActivity, connected, ActivityBroadcast(activityLog'))
        /\ UNCHANGED lastHeartbeat
  /\ watchEvents' = watchEvents \ {e}
  /\ reads' = CountRead
  /\ bcasts' = bcasts + 1
  /\ UNCHANGED <<recVars, fs, fsChanges, fsBudget, snapshot, alive, connected, timers, lastSecretHash,
                 lastInodeData, lastPoll>>

WatcherAdd(n) == WatcherFileEvent(WatchEvent("add", n), "add")

WatcherChange(n) == WatcherFileEvent(WatchEvent("change", n), "change")

WatcherUnlink(n) == WatcherFileEvent(WatchEvent("unlink", n), "remove")

\* --- watcher.on('addDir' | 'unlinkDir'): refresh after a delay -------------
WatcherDirEvent(e, label) ==
  /\ alive
  /\ e \in watchEvents
  /\ watchEvents' = watchEvents \ {e}
  /\ timers' = [timers EXCEPT ![label] = @ + 1]
  /\ UNCHANGED <<recVars, fs, fsChanges, fsBudget, snapshot, alive, connected, lastMsg, lastActivity, lastHeartbeat, activityLog,
                 lastSecretHash, lastInodeData, reads, bcasts, lastPoll>>

WatcherAddDir(n) == WatcherDirEvent(WatchEvent("addDir", n), "directory-change")

WatcherUnlinkDir(n) == WatcherDirEvent(WatchEvent("unlinkDir", n), "directory-removal")

\* the setTimeout callback: read and broadcast, no activity entry
RefreshTimer(label) ==
  /\ alive
  /\ timers[label] > 0
  /\ timers' = [timers EXCEPT ![label] = @ - 1]
  /\ lastMsg' = IoEmit(lastMsg, connected,
                  SecretsUpdate("refresh", label, readSecretsFromDirectory(fs)))
  /\ reads' = CountRead
  /\ bcasts' = bcasts + 1
  /\ UNCHANGED <<lastActivity, lastHeartbeat, recVars, fs, fsChanges, fsBudget, snapshot, alive, connected, watchEvents, activityLog,
                 lastSecretHash, lastInodeData, lastPoll>>

\* --- pollSecrets, every 250 ms ----------------------------------------------
\* lastModified was produced by toISOString(): it is a string, and a string
\* has no getTime method
HasGetTime(lastModified) == lastModified[1] # "iso"

TypeError == <<"TypeError">>

\* Object.entries(secrets).map(...): calling data.lastModified?.getTime()
\* on a value without that method throws
SecretData(secrets) ==
  IF \E n \in DOMAIN secrets : ~HasGetTime(secrets[n].lastModified)
  THEN TypeError
  ELSE <<"json", [n \in DOMAIN secrets |->
                   [filename |-> n, content |-> secrets[n].content,
                    lastModified |-> secrets[n].lastModified[2],
                    size |-> secrets[n].size]]>>

\* the uncaught exception ends the process: sockets close, timers are gone
ProcessDies ==
  /\ alive' = FALSE
  /\ connected' = {}
  /\ lastMsg' = [c \in Clients |-> NoMsg]
  /\ lastActivity' = [c \in Clients |-> NoMsg]
  /\ lastHeartbeat' = [c \in Clients |-> NoMsg]
  /\ watchEvents' = {}
  /\ timers' = NoTimers

PollRecord(prev, cur, outcome) == [prev |-> prev, cur |-> cur, outcome |-> outcome]

PreviousPolled == IF lastPoll = NoSnapshot THEN NoSnapshot ELSE lastPoll.cur

pollSecrets ==
  /\ alive
  /\ LET secrets == readSecretsFromDirectory(fs)
         currentHash == SecretData(secrets)
     IN IF currentHash = TypeError
        THEN /\ ProcessDies
             /\ lastPoll' = PollRecord(PreviousPolled, secrets, "threw")
             /\ UNCHANGED <<activityLog, lastSecretHash, bcasts>>
        ELSE IF currentHash # lastSecretHash /\ lastSecretHash # EmptyString
        THEN /\ activityLog' = addActivityEntry(activityLog, "fast-poll",
                                                "content-change", secrets)
             /\ lastMsg' = IoEmit(lastMsg, connected,
                             SecretsUpdate("fast-poll", "content-change", secrets))
             /\ lastActivity' = IoEmit(lastActivity, connected,
                                       ActivityBroadcast(activityLog'))
             /\ UNCHANGED lastHeartbeat
             /\ bcasts' = bcasts + 1
             /\ lastSecretHash' = currentHash
             /\ lastPoll' = PollRecord(PreviousPolled, secrets, "changed")
             /\ UNCHANGED <<alive, connected, watchEvents, timers>>
        ELSE /\ lastSecretHash' = currentHash
             /\ lastPoll' = PollRecord(PreviousPolled, secrets, "unchanged")
             /\ UNCHANGED <<alive, connected, watchEvents, timers, lastMsg, lastActivity, lastHeartbeat,
                            activityLog, bcasts>>
  /\ reads' = CountRead
  /\ UNCHANGED <<recVars, fs, fsChanges, fsBudget, snapshot, lastInodeData>>

\* --- monitorInodes, every 300 ms --------------------------------------------
\* `${stats.ino}_${stats.mtime.getTime()}_${stats.size}`
InodeKey(e) == <<e.ino, e.mtime, Len(e.raw)>>

\* the files.forEach loop of monitorInodes: a failing statSync skips the file
RECURSIVE InodeScan(_, _, _, _)
InodeScan(d, files, data, changed) ==
  IF files = <<>> THEN [data |-> data, inodeChanged |-> changed]
  ELSE LET file == Head(files)
           e == d[file]
       IN IF StatThrows(e) THEN InodeScan(d, Tail(files), data, changed)
          ELSE LET currentInode == InodeKey(e)
                   known == file \in DOMAIN data
               IN InodeScan(d, Tail(files), (file :> currentInode) @@ data,
                            changed \/ (known /\ data[file] # currentInode))

monitorInodes ==
  /\ alive
  /\ LET scan == IF ExistsSync(fs)
                 THEN InodeScan(fs, Readdir(fs), lastInodeData, FALSE)
                 ELSE [data |-> lastInodeData, inodeChanged |-> FALSE]
     IN /\ lastInodeData' = scan.data
        /\ IF scan.inodeChanged
           THEN LET secrets == readSecretsFromDirectory(fs)
                IN /\ activityLog' = addActivityEntry(activityLog, "inode-change",
                                                      "file-metadata", secrets)
                   /\ lastMsg' = IoEmit(lastMsg, connected,
                                   SecretsUpdate("inode-change", "file-metadata", secrets))
                   /\ lastActivity' = IoEmit(lastActivity, connected,
                                             ActivityBroadcast(activityLog'))
                   /\ UNCHANGED lastHeartbeat
                   /\ bcasts' = bcasts + 1
                   /\ reads' = CountRead
           ELSE UNCHANGED <<activityLog, lastMsg, lastActivity, lastHeartbeat, bcasts, reads>>
  /\ UNCHANGED <<recVars, fs, fsChanges, fsBudget, snapshot, alive, connected, watchEvents, timers,
                 lastSecretHash, lastPoll>>

Next ==
  \/ \E n \in Names, raw \in WrittenContents : CreateFile(n, raw)
  \/ \E n \in Names, raw \in WrittenContents : WriteFile(n, raw)
  \/ \E n \in Names : RemoveFile(n)
  \/ \E n \in DirNames : MakeDir(n)
  \/ \E n \in DirNames : RemoveDir(n)
  \/ \E c \in Clients : Connection(c)
  \/ \E c \in Clients : Disconnect(c)
  \/ \E n \in Names : WatcherAdd(n)
  \/ \E n \in Names : WatcherChange(n)
  \/ \E n \in Names : WatcherUnlink(n)
  \/ \E n \in Names : WatcherAddDir(n)
  \/ \E n \in Names : WatcherUnlinkDir(n)
  \/ \E l \in TimerLabels : RefreshTimer(l)
  \/ pollSecrets
  \/ monitorInodes

Spec == Init /\ [][Next]_vars

\* two snapshots differ: in their key sets, or in a shared key's entry
SnapshotsDiffer(previous, current) ==
  \/ DOMAIN previous # DOMAIN current
  \/ \E n \in DOMAIN previous \cap DOMAIN current :
       \/ previous[n].content # current[n].content
       \/ previous[n].size # current[n].size
       \/ previous[n].lastModified # current[n].lastModified

\* C2: each real change is broadcast once, however many signal sources see
\* it: once the file watcher has handled every event it raised (so every
\* change so far has been pushed), no other source pushes a snapshot again.
C2_OneBroadcastPerChange ==
  [][(watchEvents = {} /\ timers = NoTimers) => bcasts' = bcasts]_vars

\* C8: the first read after start-up only establishes the baseline: while
\* the directory is still as it was at start-up, empty or not, the first read
\* produces no 'secrets-update' broadcast and no activity entry.
C8_FirstReadIsBaselineOnly ==
  (reads = 1 /\ fsChanges = 0) => (bcasts = 0 /\ activityLog = <<>>)

\* C9: with a previous snapshot, the change detector of the content poller
\* reports a change exactly when the two snapshots differ in key set or in
\* the content, size or lastModified of a shared key.
C9_ChangedIffSnapshotsDiffer ==
  (lastPoll # NoSnapshot /\ lastPoll.prev # NoSnapshot) =>
    ((lastPoll.outcome = "changed") <=> SnapshotsDiffer(lastPoll.prev, lastPoll.cur))

\* the dedup window in ticks of the clock: two successive changes of the
\* directory can fall within it
DEDUP_WINDOW == 1

\* C15: the activity log never holds two entries for the same (action, file)
\* whose timestamps lie within the dedup window of one another.
C15_ActivityDedup ==
  \A i, j \in 1..Len(activityLog) :
    (/\ i < j
     /\ activityLog[i].action = activityLog[j].action
     /\ activityLog[i].file = activityLog[j].file)
      => activityLog[i].timestamp - activityLog[j].timestamp > DEDUP_WINDOW

\* C16: no callback of the subsystem ends the process: the server stays
\* alive, and no poll ends in an exception.
C16_ProcessSurvives ==
  /\ alive
  /\ lastPoll # NoSnapshot => lastPoll.outcome # "threw"

\* ------------------------------------------------------------------------
\* FairSpec: file watcher, connections and content poller, fairly scheduled
\* ------------------------------------------------------------------------
\* a symlink whose target is gone, as a projected volume leaves behind
DanglingLink == [kind |-> "dangling", raw |-> <<"x">>, mtime |-> 1, ino |-> 2]

\* the directory the watcher starts on
WatchedDirectories ==
  InitialDirectories \cup {[EmptyDirectory EXCEPT !["a"] = DanglingLink]}

InitWatch ==
  /\ ServerStartFrom(WatchedDirectories)
  /\ ReconcilerIdle
  /\ fsBudget = MaxWatchedChanges

NextWatch ==
  \/ \E n \in Names, raw \in WrittenContents : CreateFile(n, raw)
  \/ \E n \in Names, raw \in WrittenContents : WriteFile(n, raw)
  \/ \E n \in Names : RemoveFile(n)
  \/ \E c \in Clients : Connection(c)
  \/ \E c \in Clients : Disconnect(c)
  \/ \E n \in Names : WatcherAdd(n)
  \/ \E n \in Names : WatcherChange(n)
  \/ \E n \in Names : WatcherUnlink(n)
  \/ pollSecrets

\* chokidar delivers the events it raised; each handler runs to completion
WatcherFairness ==
  WF_vars(\E n \in Names : WatcherAdd(n) \/ WatcherChange(n) \/ WatcherUnlink(n))

FairSpec == InitWatch /\ [][NextWatch]_vars /\ WatcherFairness

ActionLabel(type) == IF type = "unlink" THEN "remove" ELSE type

\* the snapshot reflects the state of the file in the directory: a file that
\* is there is in the snapshot with its trimmed content, a file that is gone
\* is not in the snapshot
Reflects(secrets, d, n) ==
  IF d[n].kind = "file"
  THEN n \in DOMAIN secrets /\ secrets[n].content = Trim(d[n].raw)
  ELSE n \notin DOMAIN secrets

\* the socket holds the update for this event, and its snapshot reflects the
\* change
Delivered(c, e) ==
  /\ lastMsg[c].action = ActionLabel(e.type)
  /\ lastMsg[c].file = e.file
  /\ Reflects(lastMsg[c].secrets, fs, e.file)

\* C1: whenever a file is added, changed or removed, the watcher event is
\* eventually handled and every client connected then holds a
\* 'secrets-update' for that event whose snapshot reflects the change.
C1_ChangeEventuallyPushed ==
  \A n \in Names : \A t \in FileEventTypes :
    (WatchEvent(t, n) \in watchEvents)
      ~> (\A c \in connected : Delivered(c, WatchEvent(t, n)))

\* ------------------------------------------------------------------------
\* FairMount: the server starts before the volume is mounted
\* ------------------------------------------------------------------------
MountedFiles == {[kind |-> "file", raw |-> raw, mtime |-> 1, ino |-> 1] : raw \in WrittenContents}

\* what the directory holds when it appears
MountedDirectories == [Names -> MountedFiles \cup {Absent}] \ {EmptyDirectory}

InitMount ==
  /\ ServerStartFrom({MissingDirectory})
  /\ ReconcilerIdle
  /\ fsBudget = MaxFsChanges

\* the directory appears: chokidar raises 'add' for its files, and
\* parentWatcher.on('addDir') schedules the 'mount-refresh' emit
MountDirectory(d) ==
  /\ alive /\ fsChanges < fsBudget
  /\ fs = MissingDirectory
  /\ fs' = d
  /\ fsChanges' = fsChanges + 1
  /\ watchEvents' = watchEvents \cup InitialEvents(d)
  /\ timers' = [timers EXCEPT !["kubernetes-mount"] = @ + 1]
  /\ UNCHANGED <<recVars, fsBudget, snapshot, alive, connected, lastMsg, lastActivity, lastHeartbeat, activityLog,
                 lastSecretHash, lastInodeData, reads, bcasts, lastPoll>>

\* the directory goes away again
UnmountDirectory ==
  /\ alive /\ fsChanges < fsBudget
  /\ fs # MissingDirectory
  /\ fs' = MissingDirectory
  /\ fsChanges' = fsChanges + 1
  /\ watchEvents' = {}
  /\ UNCHANGED <<recVars, fsBudget, snapshot, alive, connected, lastMsg, lastActivity, lastHeartbeat, timers, activityLog,
                 lastSecretHash, lastInodeData, reads, bcasts, lastPoll>>

NextMount ==
  \/ \E d \in MountedDirectories : MountDirectory(d)
  \/ UnmountDirectory
  \/ \E c \in Clients : Connection(c)
  \/ \E c \in Clients : Disconnect(c)
  \/ \E n \in Names : WatcherAdd(n)
  \/ RefreshTimer("kubernetes-mount")
  \/ pollSecrets

\* intervals keep firing, chokidar delivers its events, timeouts expire
MountFairness ==
  /\ WF_vars(pollSecrets)
  /\ WF_vars(\E n \in Names : WatcherAdd(n))
  /\ WF_vars(RefreshTimer("kubernetes-mount"))

FairMount == InitMount /\ [][NextMount]_vars /\ MountFairness

\* C12: while the directory is missing the reader returns the empty
\* snapshot without failing, and once the directory is there with content
\* the change is eventually broadcast.
C12_ReappearedDirectoryBroadcast ==
  /\ []((lastPoll # NoSnapshot /\ fs = MissingDirectory /\ fsChanges = 0) =>
         (lastPoll.cur = EmptySnapshot /\ lastPoll.outcome # "threw"))
  /\ (fs # MissingDirectory) ~> (bcasts > 0 \/ fs = MissingDirectory)

\* ------------------------------------------------------------------------
\* SpecConnect: sockets connect to a server that has a history
\* ------------------------------------------------------------------------
\* lengths of the activity log the observation starts with: around the
\* slice sent to a new socket and around the capacity of the log
SeedLengths == {0, 1, ACTIVITY_SLICE - 1, ACTIVITY_SLICE, ACTIVITY_SLICE + 1,
                MAX_ACTIVITY_ENTRIES - 1, MAX_ACTIVITY_ENTRIES}

\* the log after k earlier changes of file a, newest first
SeedLog(k) ==
  [i \in 1..k |-> [timestamp |-> 1 - i, action |-> "change", file |-> "a",
                   secretCount |-> 1]]

InitConnect ==
  /\ fs \in WatchedDirectories
  /\ fsChanges = 0
  /\ fsBudget = MaxWatchedChanges
  /\ snapshot = NoSnapshot
  /\ alive = TRUE
  /\ connected = {}
  /\ lastMsg = [c \in Clients |-> NoMsg]
  /\ lastActivity = [c \in Clients |-> NoMsg]
  /\ lastHeartbeat = [c \in Clients |-> NoMsg]
  /\ watchEvents = {}
  /\ timers = NoTimers
  /\ activityLog \in {SeedLog(k) : k \in SeedLengths}
  /\ lastSecretHash = EmptyString
  /\ lastInodeData = <<>>
  /\ reads = 0
  /\ bcasts = 0
  /\ lastPoll = NoSnapshot
  /\ ReconcilerIdle

NextConnect ==
  \/ \E n \in Names, raw \in WrittenContents : CreateFile(n, raw)
  \/ \E n \in Names, raw \in WrittenContents : WriteFile(n, raw)
  \/ \E c \in Clients : Connection(c)
  \/ \E c \in Clients : Disconnect(c)
  \/ \E n \in Names : WatcherAdd(n)
  \/ \E n \in Names : WatcherChange(n)

SpecConnect == InitConnect /\ [][NextConnect]_vars

\* the newest entries of the log, at most ten, newest first
IsRecentSlice(slice, log) ==
  /\ Len(slice) = (IF Len(log) < 10 THEN Len(log) ELSE 10)
  /\ \A i \in 1..Len(slice) : slice[i] = log[i]

\* C13: the step that connects a socket sends it the snapshot of the
\* directory as it is (not an empty one when the directory holds files) and
\* the newest entries of the activity log, at most ten.
C13_ConnectSendsLatest ==
  [][\A c \in Clients :
       (c \notin connected /\ c \in connected') =>
         /\ IsRecentSlice(lastActivity'[c].activity, activityLog)
         /\ \A n \in Names : Reflects(lastMsg'[c].secrets, fs, n)
         /\ (\E n \in Names : fs[n].kind = "file") =>
              lastMsg'[c].secrets # EmptySnapshot]_vars

\* C14: the activity log never holds more than 100 entries, and an append
\* puts the new entry first, keeps the entries that were there in their
\* order, and drops the oldest one only when the log was full.
C14_LogKeepsNewestHundred ==
  /\ [](Len(activityLog) <= 100)
  /\ [][activityLog' # activityLog =>
          /\ Len(activityLog') = (IF Len(activityLog) < 100 THEN Len(activityLog) + 1 ELSE 100)
          /\ activityLog'[1].timestamp = Now
          /\ \A i \in 2..Len(activityLog') : activityLog'[i] = activityLog[i - 1]]_vars

\* the full log took one more entry: the oldest seeded entry is gone
C14_Witness ==
  /\ Len(activityLog) = 100
  /\ activityLog[1].timestamp >= 1
  /\ activityLog[100].timestamp = -98

\* ------------------------------------------------------------------------
\* SpecRec: the kubectl-driven debounced reconciler
\* ------------------------------------------------------------------------
\* the fixed maximum number of retry reads of one Reconciling sequence
MAX_RETRIES == 8

\* changes the projected volume goes through while the reconciler is observed
MaxVolumeChanges == 1

\* the server is up, the kubectl watch runs instead of the file watcher, and
\* every client has connected and been sent the directory as it is
InitRec ==
  /\ fs \in InitialDirectories
  /\ fsChanges = 0
  /\ fsBudget = MaxVolumeChanges
  /\ snapshot = NoSnapshot
  /\ alive = TRUE
  /\ connected = Clients
  /\ lastMsg = [c \in Clients |->
                  SecretsUpdate("none", "none", readSecretsFromDirectory(fs))]
  /\ lastActivity = [c \in Clients |-> ActivityUpdate(<<>>)]
  /\ lastHeartbeat = [c \in Clients |-> NoMsg]
  /\ watchEvents = {}
  /\ timers = NoTimers
  /\ activityLog = <<>>
  /\ lastSecretHash = EmptyString
  /\ lastInodeData = <<>>
  /\ reads = 0
  /\ bcasts = 0
  /\ lastPoll = NoSnapshot
  /\ ReconcilerIdle

RecFrame == UNCHANGED <<fsBudget, snapshot, alive, connected, watchEvents, timers,
                        lastSecretHash, lastInodeData, reads, lastPoll, kubectlWatcher, client, config, shutdown>>

\* --- the projected volume: content arrives some time after the signal -----
VolumeWrite(n, raw) ==
  /\ fsChanges < fsBudget
  /\ fs[n].kind \in {"absent", "file"}
  /\ fs' = [fs EXCEPT ![n] = [kind |-> "file", raw |-> raw, mtime |-> Now + 1, ino |-> 1]]
  /\ fsChanges' = fsChanges + 1
  /\ UNCHANGED <<recVars, lastMsg, lastActivity, lastHeartbeat, activityLog, bcasts>>
  /\ RecFrame

VolumeRemove(n) ==
  /\ fsChanges < fsBudget
  /\ fs[n].kind = "file"
  /\ fs' = [fs EXCEPT ![n] = Absent]
  /\ fsChanges' = fsChanges + 1
  /\ UNCHANGED <<recVars, lastMsg, lastActivity, lastHeartbeat, activityLog, bcasts>>
  /\ RecFrame

\* --- Change Detector --------------------------------------------------------
\* hasChanged(previous, current): false when there is no previous snapshot
contentChanged(secrets) ==
  /\ lastKnown # NoSnapshot
  /\ SnapshotsDiffer(lastKnown, secrets)

\* the first read establishes the baseline
Baseline(secrets) == IF lastKnown = NoSnapshot THEN secrets ELSE lastKnown

\* --- Broadcaster ------------------------------------------------------------
\* the action of the Activity Entry derived from the two snapshots
ChangeAction(previous, current) ==
  IF DOMAIN current \ DOMAIN previous # {} THEN "created"
  ELSE IF DOMAIN previous \ DOMAIN current # {} THEN "deleted"
  ELSE "updated"

ChangedNames(previous, current) ==
  {n \in DOMAIN previous \cup DOMAIN current :
     \/ n \notin DOMAIN previous
     \/ n \notin DOMAIN current
     \/ previous[n] # current[n]}

\* the affected entry, or a sentinel when several entries changed
ChangeFile(previous, current) ==
  LET changed == ChangedNames(previous, current)
  IN IF Cardinality(changed) = 1 THEN CHOOSE n \in changed : TRUE ELSE "multiple"

\* publish(snapshot, activity): full snapshot to every subscriber, one
\* Activity Entry, and the snapshot becomes the last known one
emitSecretsUpdate(secrets, source) ==
  /\ lastMsg' = IoEmit(lastMsg, connected, SecretsUpdate(source, "secrets", secrets))
  /\ activityLog' = addActivityEntry(activityLog, ChangeAction(lastKnown, secrets),
                                     ChangeFile(lastKnown, secrets), secrets)
  /\ lastActivity' = IoEmit(lastActivity, connected, ActivityBroadcast(activityLog'))
  /\ UNCHANGED lastHeartbeat
  /\ bcasts' = bcasts + 1
  /\ lastKnown' = secrets
  /\ pendingUpdateCount' = 0

\* --- Debounced Reconciler ---------------------------------------------------
\* a clearTimeout that leaves the pending timeout armed
ClearTimeoutForgotten(pending) == pending

\* clearTimeout(updateTimeoutId): the newest pending debounce timeout is gone
ClearTimeout(pending) == IF pending > 0 THEN pending - 1 ELSE 0

\* kubectlWatcher.stdout.on('data') saw a new resourceVersion
handleKubectlUpdate ==
  /\ alive
  /\ signals < MaxSignals
  /\ signals' = signals + 1
  /\ burst' = burst + 1
  /\ pendingUpdateCount' = pendingUpdateCount + 1
  /\ debounceTimers' = ClearTimeout(debounceTimers) + 1
  /\ UNCHANGED <<fs, fsChanges, retryTimer, lastKnown, lastRead, lastMsg, lastActivity, lastHeartbeat, activityLog,
                 bcasts>>
  /\ RecFrame

\* handleSecretUpdateWithRetry(source, 0), entered after a read that showed no
\* change: schedule the first retry, unless a sequence is already in flight
handleSecretUpdateWithRetry(secrets) ==
  /\ lastKnown' = Baseline(secrets)
  /\ IF retryTimer # 0
     THEN UNCHANGED <<retryTimer, pendingUpdateCount>>
     ELSE /\ retryTimer' = 1
          /\ pendingUpdateCount' = 0
  /\ UNCHANGED <<lastMsg, lastActivity, lastHeartbeat, activityLog, bcasts>>

ReadBy(who, secrets) ==
  [by |-> who, inFlight |-> retryTimer # 0, changed |-> contentChanged(secrets),
   count |-> lastRead.count + 1]

\* the debounce timeout of handleKubectlUpdate fires
DebounceExpired ==
  /\ alive
  /\ debounceTimers > 0
  /\ debounceTimers' = debounceTimers - 1
  /\ burst' = 0
  /\ LET secrets == readSecretsFromDirectory(fs)
     IN /\ lastRead' = ReadBy("debounce", secrets)
        /\ IF contentChanged(secrets)
           THEN /\ emitSecretsUpdate(secrets, "kubectl-immediate")
                /\ UNCHANGED retryTimer
           ELSE handleSecretUpdateWithRetry(secrets)
  /\ UNCHANGED <<fs, fsChanges, signals>>
  /\ RecFrame

\* a sequence that starts over when it has used up its attempts
NextAttemptStartsOver(attempt, changed) ==
  IF changed THEN 0
  ELSE IF attempt < MAX_RETRIES THEN attempt + 1 ELSE 1

\* a sequence that keeps retrying after it has published
NextAttemptIgnoresChange(attempt, changed) ==
  IF attempt < MAX_RETRIES THEN attempt + 1 ELSE 0

\* a sequence that retries once more than the maximum
NextAttemptPastMaximum(attempt, changed) ==
  IF changed THEN 0
  ELSE IF attempt <= MAX_RETRIES THEN attempt + 1 ELSE 0

\* Reconciling{attempt}: where the sequence goes after the attempt's read
NextAttempt(attempt, changed) ==
  IF changed THEN 0
  ELSE IF attempt < MAX_RETRIES THEN attempt + 1 ELSE 0

\* an abandonment that forgets the signals that arrived meanwhile
RearmNever(pendingCount, pending) == pending

\* a sequence abandoned while signals arrived starts one more debounce cycle
RearmAfterAbandon(pendingCount, pending) ==
  IF pendingCount > 0 THEN ClearTimeout(pending) + 1 ELSE pending

\* a retry timeout fires: re-read and re-compare
RetryTimerFired ==
  /\ alive
  /\ retryTimer # 0
  /\ LET secrets == readSecretsFromDirectory(fs)
         changed == contentChanged(secrets)
         abandoned == ~changed /\ NextAttempt(retryTimer, changed) = 0
     IN /\ lastRead' = ReadBy("retry", secrets)
        /\ retryTimer' = NextAttempt(retryTimer, changed)
        /\ IF changed
           THEN emitSecretsUpdate(secrets, "kubectl-detected")
           ELSE UNCHANGED <<pendingUpdateCount, lastKnown, lastMsg, lastActivity, lastHeartbeat, activityLog, bcasts>>
        /\ IF abandoned
           THEN /\ debounceTimers' = RearmAfterAbandon(pendingUpdateCount, debounceTimers)
                /\ burst' = IF debounceTimers' = debounceTimers /\ pendingUpdateCount = 0
                            THEN burst ELSE burst + 1
           ELSE UNCHANGED <<debounceTimers, burst>>
  /\ UNCHANGED <<fs, fsChanges, signals>>
  /\ RecFrame

NextRec ==
  \/ \E n \in Names, raw \in WrittenContents : VolumeWrite(n, raw)
  \/ \E n \in Names : VolumeRemove(n)
  \/ handleKubectlUpdate
  \/ DebounceExpired
  \/ RetryTimerFired

SpecRec == InitRec /\ [][NextRec]_vars

\* the snapshot shows the directory: one entry per regular file, holding the
\* file's trimmed content, its size and its modification time
DirectoryShows(d, secrets) ==
  /\ DOMAIN secrets = {n \in Names : d[n].kind = "file"}
  /\ \A n \in DOMAIN secrets :
       /\ secrets[n].content = Trim(d[n].raw)
       /\ secrets[n].size = Len(d[n].raw)
       /\ secrets[n].lastModified = ToISOString(d[n].mtime)

DebounceReadStep == lastRead'.by = "debounce" /\ lastRead'.count = lastRead.count + 1
RetryReadStep == lastRead'.by = "retry" /\ lastRead'.count = lastRead.count + 1

\* C3: the signals of one burst share one debounce timer, restarted by each
\* signal; when it expires the directory is read exactly once, whatever the
\* number of signals in the burst, and a retry is scheduled only by a read
\* that showed no change (and so published nothing).
C3_DebounceCoalescing ==
  /\ [](debounceTimers <= 1 /\ (burst > 0 <=> debounceTimers = 1))
  /\ [][(burst > 0 /\ burst' = 0) =>
          (DebounceReadStep /\ debounceTimers' = 0)]_vars
  /\ [][lastRead'.count > lastRead.count =>
          (lastRead'.count = lastRead.count + 1 /\ signals' = signals)]_vars
  /\ [][(retryTimer' # 0 /\ retryTimer' # retryTimer) =>
          (bcasts' = bcasts /\ DirectoryShows(fs, lastKnown'))]_vars

\* three signals in one burst, then one expiry: the directory was read once
C3_Witness ==
  /\ signals = 3
  /\ burst = 0
  /\ lastRead.by = "debounce"
  /\ lastRead.count = 1
  /\ retryTimer = 1

\* C4: when the change becomes visible at the K-th retry, K below the
\* maximum, that retry publishes once (the directory as it is, to every
\* subscriber, with one Activity Entry) and the sequence is over.
C4_RetryConvergence ==
  [][(RetryReadStep /\ retryTimer < MAX_RETRIES /\ ~DirectoryShows(fs, lastKnown)) =>
       /\ bcasts' = bcasts + 1
       /\ DirectoryShows(fs, lastKnown')
       /\ \A c \in connected : lastMsg'[c].secrets = lastKnown'
       /\ Len(activityLog') = Len(activityLog) + 1
       /\ retryTimer' = 0]_vars

\* the third retry of a sequence saw the change and published it
C4_Witness ==
  /\ lastRead.by = "retry"
  /\ lastRead.changed
  /\ lastRead.count = 4
  /\ signals = 1
  /\ bcasts = 1
  /\ retryTimer = 0
  /\ DirectoryShows(fs, lastKnown)

\* C5: a retry that sees no difference publishes nothing, and after the last
\* one the sequence is over without a broadcast or an Activity Entry.
C5_RetryExhaustionSilent ==
  [][(RetryReadStep /\ DirectoryShows(fs, lastKnown)) =>
       /\ bcasts' = bcasts
       /\ activityLog' = activityLog
       /\ lastMsg' = lastMsg
       /\ lastKnown' = lastKnown
       /\ retryTimer' = (IF retryTimer = MAX_RETRIES THEN 0 ELSE retryTimer + 1)]_vars

\* a whole sequence ran out: every retry read, nothing published
C5_Witness ==
  /\ lastRead.by = "retry"
  /\ ~lastRead.changed
  /\ lastRead.count = MAX_RETRIES + 1
  /\ signals = 1
  /\ retryTimer = 0
  /\ bcasts = 0
  /\ activityLog = <<>>

\* C6: a signal that arrives while a sequence is in flight causes no read of
\* its own: the debounce callback never reads while a retry is pending.
C6_SingleInFlightSequence ==
  lastRead.by = "debounce" => ~lastRead.inFlight

\* C7: a signal that arrived during a sequence is not dropped: when the
\* sequence has been abandoned with such signals outstanding, a debounce cycle
\* is pending.
C7_SignalDuringSequenceKept ==
  (retryTimer = 0 /\ pendingUpdateCount > 0) => debounceTimers = 1

\* the sequence was abandoned after the signal's own timer had expired, and
\* the abandonment armed the debounce timer again
C7_Witness ==
  /\ lastRead.by = "retry"
  /\ ~lastRead.changed
  /\ retryTimer = 0
  /\ pendingUpdateCount > 0
  /\ signals >= 2
  /\ burst = 1
  /\ debounceTimers = 1

\* ------------------------------------------------------------------------
\* FairTimer: the Reconciliation Timer over a volume whose changes raise no
\* other signal.  FairHeartbeat: the same timer with subscribers coming and
\* going.  The ticks are counted in signals; a change or a subscription
\* happens while a tick is still to come, as the period always elapses again.
\* ------------------------------------------------------------------------
\* ticks of the Reconciliation Timer in a run
MaxTicks == 2

\* a tick that does not force a recheck
ForcedRecheckSkipped(pending) == pending

\* the tick is a recheck signal: it restarts the debounce window
ForcedRecheck(pending) == ClearTimeout(pending) + 1

\* a subscriber count that is never decremented by a disconnect
SubscriberCountNeverDecremented(sockets) == Cardinality(Clients)

SubscriberCount(sockets) == Cardinality(sockets)

EntryCount(secrets) == IF secrets = NoSnapshot THEN 0 ELSE Cardinality(DOMAIN secrets)

\* the liveness message: current subscriber count and entry count
Heartbeat(sockets, secrets) ==
  [connectedClients |-> SubscriberCount(sockets), secretCount |-> EntryCount(secrets)]

InitTimer ==
  /\ fs \in InitialDirectories
  /\ fsChanges = 0
  /\ fsBudget = MaxVolumeChanges
  /\ snapshot = NoSnapshot
  /\ alive = TRUE
  /\ connected = {}
  /\ lastMsg = [c \in Clients |-> NoMsg]
  /\ lastActivity = [c \in Clients |-> NoMsg]
  /\ lastHeartbeat = [c \in Clients |-> NoMsg]
  /\ watchEvents = {}
  /\ timers = NoTimers
  /\ activityLog = <<>>
  /\ lastSecretHash = EmptyString
  /\ lastInodeData = <<>>
  /\ reads = 0
  /\ bcasts = 0
  /\ lastPoll = NoSnapshot
  /\ ReconcilerIdle

\* the period elapses: force a recheck and tell every subscriber the server
\* is alive, whether or not anything changed
ReconciliationTimer ==
  /\ alive
  /\ signals < MaxTicks
  /\ signals' = signals + 1
  /\ burst' = burst + 1
  /\ pendingUpdateCount' = pendingUpdateCount + 1
  /\ debounceTimers' = ForcedRecheck(debounceTimers)
  /\ lastHeartbeat' = IoEmit(lastHeartbeat, connected, Heartbeat(connected, lastKnown))
  /\ UNCHANGED <<fs, fsChanges, retryTimer, lastKnown, lastRead, lastMsg,
                 lastActivity, activityLog, bcasts>>
  /\ RecFrame

\* a change of the volume that reaches the server through no signal at all
SilentWrite(n, raw) == signals < MaxTicks /\ VolumeWrite(n, raw)

SilentRemove(n) == signals < MaxTicks /\ VolumeRemove(n)

\* the secret that is created, rewritten or removed behind the server's back
SilentNames == {"a"}

NextTimer ==
  \/ \E n \in SilentNames, raw \in WrittenContents : SilentWrite(n, raw)
  \/ \E n \in SilentNames : SilentRemove(n)
  \/ ReconciliationTimer
  \/ DebounceExpired
  \/ RetryTimerFired

\* timers that are armed fire; the period always elapses again
TimerFairness ==
  /\ WF_vars(ReconciliationTimer)
  /\ WF_vars(DebounceExpired)
  /\ WF_vars(RetryTimerFired)

\* the subscribers are connected; the baseline is taken at start-up or by the
\* first recheck
InitReconciled ==
  /\ fs \in InitialDirectories
  /\ fsChanges = 0
  /\ fsBudget = MaxVolumeChanges
  /\ snapshot = NoSnapshot
  /\ alive = TRUE
  /\ connected = Clients
  /\ lastMsg = [c \in Clients |->
                  SecretsUpdate("none", "none", readSecretsFromDirectory(fs))]
  /\ lastActivity = [c \in Clients |-> ActivityUpdate(<<>>)]
  /\ lastHeartbeat = [c \in Clients |-> NoMsg]
  /\ watchEvents = {}
  /\ timers = NoTimers
  /\ activityLog = <<>>
  /\ lastSecretHash = EmptyString
  /\ lastInodeData = <<>>
  /\ reads = 0
  /\ bcasts = 0
  /\ lastPoll = NoSnapshot
  /\ debounceTimers = 0
  /\ pendingUpdateCount = 0
  /\ retryTimer = 0
  /\ lastKnown \in {NoSnapshot, readSecretsFromDirectory(fs)}
  /\ signals = 0
  /\ burst = 0
  /\ lastRead = NoRead
  /\ kubectlWatcher = "running"
  /\ client = ClientMounted
  /\ config = DefaultConfig
  /\ shutdown = NotRequested

FairTimer == InitReconciled /\ [][NextTimer]_vars /\ TimerFairness

Subscribe(c) == signals < MaxTicks /\ Connection(c)

\* the directory never changes here: the liveness message does not depend on it
NextHeartbeat ==
  \/ \E c \in Clients : Subscribe(c)
  \/ \E c \in Clients : Disconnect(c)
  \/ ReconciliationTimer
  \/ DebounceExpired
  \/ RetryTimerFired

FairHeartbeat == InitTimer /\ [][NextHeartbeat]_vars /\ TimerFairness

TimerStep == signals' = signals + 1

MaxRefreshes == 2

InitRefresh ==
  /\ ServerStartFrom(InitialDirectories)
  /\ ReconcilerIdle
  /\ fsBudget = MaxWatchedChanges

\* app.get('/api/health-refresh'): read and emit to every socket, whatever
\* was read; no activity entry
HealthRefresh ==
  /\ alive
  /\ signals < MaxRefreshes
  /\ signals' = signals + 1
  /\ LET secrets == readSecretsFromDirectory(fs)
     IN lastMsg' = IoEmit(lastMsg, connected,
                          SecretsUpdate("health-refresh", "manual-refresh", secrets))
  /\ reads' = CountRead
  /\ bcasts' = bcasts + 1
  /\ UNCHANGED <<debounceTimers, pendingUpdateCount, retryTimer, lastKnown, burst, lastRead,
                 kubectlWatcher, client, config, shutdown>>
  /\ UNCHANGED <<fs, fsChanges, fsBudget, snapshot, alive, connected, lastActivity,
                 lastHeartbeat, watchEvents, timers, activityLog, lastSecretHash,
                 lastInodeData, lastPoll>>

\* socketInstance.emit('force-refresh'): io.on('connection') registers a
\* handler for 'disconnect' only, so the request reaches no code
ForceRefresh(c) ==
  /\ alive
  /\ c \in connected
  /\ signals < MaxRefreshes
  /\ signals' = signals + 1
  /\ UNCHANGED <<debounceTimers, pendingUpdateCount, retryTimer, lastKnown, burst, lastRead,
                 kubectlWatcher, client, config, shutdown>>
  /\ UNCHANGED <<fs, fsChanges, fsBudget, snapshot, alive, connected, lastMsg, lastActivity,
                 lastHeartbeat, watchEvents, timers, activityLog, lastSecretHash,
                 lastInodeData, reads, bcasts, lastPoll>>

NextRefresh ==
  \/ \E n \in Names, raw \in WrittenContents : CreateFile(n, raw)
  \/ \E n \in Names, raw \in WrittenContents : WriteFile(n, raw)
  \/ \E c \in Clients : Connection(c)
  \/ \E c \in Clients : Disconnect(c)
  \/ \E n \in Names : WatcherAdd(n)
  \/ \E n \in Names : WatcherChange(n)
  \/ HealthRefresh
  \/ \E c \in Clients : ForceRefresh(c)

SpecRefresh == InitRefresh /\ [][NextRefresh]_vars

\* C19: a recheck request that makes the server send a snapshot to its
\* subscribers sends one that differs from what some subscriber was sent
\* last: a forced recheck broadcasts only if a change is found.
C19_ForcedRecheckOnlyOnChange ==
  [][(signals' = signals + 1 /\ bcasts' = bcasts + 1 /\ connected # {})
       => \E c \in connected :
            SnapshotsDiffer(lastMsg[c].secrets, lastMsg'[c].secrets)]_vars

\* ------------------------------------------------------------------------
\* FairKubectl: the kubectl watch as the only signal source, and the watch
\* process may end
\* ------------------------------------------------------------------------
\* the Kubernetes secret is updated: the projected volume gets the content
SecretUpdated(n, raw) == VolumeWrite(n, raw)

\* kubectlWatcher.stdout.on('data'): kubectl prints the resourceVersion of
\* an update it has not printed yet
KubectlData ==
  /\ kubectlWatcher = "running"
  /\ signals < fsChanges
  /\ handleKubectlUpdate

\* the kubectl process ends; startKubectlSecretMonitoring registers no
\* 'close', 'exit' or 'error' listener, so no code runs
KubectlExits ==
  /\ alive
  /\ kubectlWatcher = "running"
  /\ kubectlWatcher' = "exited"
  /\ UNCHANGED <<client, config, shutdown>>
  /\ UNCHANGED <<fs, fsChanges, fsBudget, snapshot, alive, connected, lastMsg, lastActivity,
                 lastHeartbeat, watchEvents, timers, activityLog, lastSecretHash,
                 lastInodeData, reads, bcasts, lastPoll, debounceTimers,
                 pendingUpdateCount, retryTimer, lastKnown, signals, burst, lastRead>>

NextKubectl ==
  \/ \E n \in Names, raw \in WrittenContents : SecretUpdated(n, raw)
  \/ KubectlData
  \/ KubectlExits
  \/ DebounceExpired
  \/ RetryTimerFired

\* a running kubectl prints what it sees; armed timeouts fire
KubectlFairness ==
  /\ WF_vars(KubectlData)
  /\ WF_vars(DebounceExpired)
  /\ WF_vars(RetryTimerFired)

FairKubectl == InitReconciled /\ [][NextKubectl]_vars /\ KubectlFairness

\* C20: change detection continues after the watch connection has ended:
\* once a baseline exists, a directory that differs from the last known
\* snapshot leads to a state where every connected subscriber holds a
\* snapshot showing the directory.
C20_DetectionContinuesAfterWatchEnds ==
  (lastKnown # NoSnapshot /\ ~DirectoryShows(fs, lastKnown))
    ~> (\A c \in connected : DirectoryShows(fs, lastMsg[c].secrets))

\* ------------------------------------------------------------------------
\* The content poller, tick by tick
\* ------------------------------------------------------------------------
PollTick == lastPoll' # lastPoll

\* C21: a tick of the poller re-reads the directory and pushes exactly when
\* there is a previously polled snapshot and the fresh read differs from it;
\* a tick over an unchanged directory pushes nothing.
C21_PollRaisesIffDiffers ==
  [][PollTick =>
       /\ lastPoll'.cur = readSecretsFromDirectory(fs)
       /\ (bcasts' = bcasts + 1) <=>
            (PreviousPolled # NoSnapshot /\ SnapshotsDiffer(PreviousPolled, lastPoll'.cur))]_vars

\* ------------------------------------------------------------------------
\* SpecUpdates: the file watcher with its immediate and its delayed handlers
\* ------------------------------------------------------------------------
InitialDirectory == [kind |-> "dir", raw |-> <<"x">>, mtime |-> 1, ino |-> 2]

\* the directory at start-up may already hold a sub-directory
WatchedTrees ==
  InitialDirectories \cup {[EmptyDirectory EXCEPT !["a"] = InitialFile,
                                                 !["b"] = InitialDirectory]}

InitUpdates ==
  /\ ServerStartFrom(WatchedTrees)
  /\ ReconcilerIdle
  /\ fsBudget = MaxWatchedChanges

NextUpdates ==
  \/ \E n \in Names, raw \in WrittenContents : CreateFile(n, raw)
  \/ \E n \in Names, raw \in WrittenContents : WriteFile(n, raw)
  \/ \E n \in DirNames : MakeDir(n)
  \/ \E n \in DirNames : RemoveDir(n)
  \/ \E c \in Clients : Connection(c)
  \/ \E c \in Clients : Disconnect(c)
  \/ \E n \in Names : WatcherAdd(n)
  \/ \E n \in Names : WatcherChange(n)
  \/ \E n \in Names : WatcherAddDir(n)
  \/ \E n \in Names : WatcherUnlinkDir(n)
  \/ \E l \in TimerLabels : RefreshTimer(l)

SpecUpdates == InitUpdates /\ [][NextUpdates]_vars

\* C22: every 'secrets-update' the server broadcasts, from a watcher handler,
\* a poller or a delayed refresh callback, carries the whole snapshot read in
\* that callback: every file of the directory and nothing else.
C22_FullSnapshotInEveryUpdate ==
  [][bcasts' = bcasts + 1 =>
       \A c \in connected :
         /\ lastMsg'[c].secrets = readSecretsFromDirectory(fs)
         /\ \A n \in Names : Reflects(lastMsg'[c].secrets, fs, n)]_vars

\* the update for the new file b also carries the untouched file a
C22_Witness ==
  \E c \in connected :
    /\ lastMsg[c].action = "add"
    /\ lastMsg[c].file = "b"
    /\ DOMAIN lastMsg[c].secrets = {"a", "b"}
    /\ bcasts > 0

\* the actions an Activity Entry may carry
ActivityActions == {"created", "updated", "deleted"}

\* C23: every entry of the activity log has an action among created, updated
\* and deleted, and the entry recorded for a change counts the entries of the
\* snapshot after the change.
C23_ActivityVocabulary ==
  /\ \A i \in 1..Len(activityLog) : activityLog[i].action \in ActivityActions
  /\ (activityLog # <<>> /\ activityLog[1].timestamp = Now /\ watchEvents = {})
       => activityLog[1].secretCount = Cardinality({n \in Names : fs[n].kind = "file"})

\* ------------------------------------------------------------------------
\* SpecClient: one browser app, its socket and its initial fetch
\* ------------------------------------------------------------------------
TheClient == "c1"

InitClient ==
  /\ ServerStartFrom(InitialDirectories)
  /\ ReconcilerIdle
  /\ fsBudget = MaxWatchedChanges

\* everything on the server side of the wire
ServerSide == <<fs, fsChanges, fsBudget, snapshot, alive, connected, lastMsg, lastActivity,
                lastHeartbeat, watchEvents, timers, activityLog, lastSecretHash,
                lastInodeData, bcasts, lastPoll, debounceTimers, pendingUpdateCount,
                retryTimer, lastKnown, signals, burst, lastRead, kubectlWatcher, config, shutdown>>

\* app.get('/api/secrets'): read the directory and answer the request; the
\* answer travels on its own HTTP connection
GetSecrets ==
  /\ alive
  /\ client.fetch = "pending"
  /\ client' = [client EXCEPT !.fetch = "answered",
                              !.response = readSecretsFromDirectory(fs)]
  /\ reads' = CountRead
  /\ UNCHANGED ServerSide

\* socket.on('secrets-update'): setSecrets(data.secrets) for the newest
\* message of the socket the app has not handled yet
ClientOnSecretsUpdate ==
  /\ lastMsg[TheClient] # NoMsg
  /\ lastMsg[TheClient] # client.applied
  /\ client' = [client EXCEPT !.secrets = lastMsg[TheClient].secrets,
                              !.applied = lastMsg[TheClient]]
  /\ UNCHANGED <<ServerSide, reads>>

\* fetch('/api/secrets').then(...): setSecrets(data.secrets)
ClientFetchResolved ==
  /\ client.fetch = "answered"
  /\ client' = [client EXCEPT !.secrets = client.response, !.fetch = "done"]
  /\ UNCHANGED <<ServerSide, reads>>

NextClient ==
  \/ \E n \in Names, raw \in WrittenContents : CreateFile(n, raw)
  \/ \E n \in Names, raw \in WrittenContents : WriteFile(n, raw)
  \/ \E n \in Names : WatcherAdd(n)
  \/ \E n \in Names : WatcherChange(n)
  \/ Connection(TheClient)
  \/ GetSecrets
  \/ ClientOnSecretsUpdate
  \/ ClientFetchResolved

SpecClient == InitClient /\ [][NextClient]_vars

\* C24: once the app has handled the answer of its initial fetch and every
\* message of its socket, and the server has pushed every change, the app
\* displays the most recently produced snapshot, which is the one of the
\* directory as it is.
C24_ClientShowsNewest ==
  (/\ TheClient \in connected
   /\ watchEvents = {}
   /\ client.fetch = "done"
   /\ client.applied = lastMsg[TheClient])
    => client.secrets = readSecretsFromDirectory(fs)

\* C25: the activity log is ordered newest first: the timestamps never
\* increase from one entry to the next.
C25_LogNewestFirst ==
  \A i \in 1..(Len(activityLog) - 1) :
    activityLog[i].timestamp >= activityLog[i + 1].timestamp

\* an entry recorded later than the one below it
C25_Witness ==
  /\ Len(activityLog) >= 2
  /\ activityLog[1].timestamp > activityLog[2].timestamp
  /\ activityLog[1].action = "change"

\* ------------------------------------------------------------------------
\* SpecConfig: the server started under every bounded environment
\* ------------------------------------------------------------------------
Environments ==
  [PORT : {Unset, "", "8080"},
   SECRETS_DIR : {Unset, "", "/secrets", "/app/secrets", "/custom"},
   SECRETS_PATH : {Unset, "", "/secrets", "/app/secrets", "/custom"}]

InitConfig ==
  /\ ServerStartFrom(InitialDirectories)
  /\ debounceTimers = 0
  /\ pendingUpdateCount = 0
  /\ retryTimer = 0
  /\ lastKnown = NoSnapshot
  /\ signals = 0
  /\ burst = 0
  /\ lastRead = NoRead
  /\ kubectlWatcher = "running"
  /\ client = ClientMounted
  /\ shutdown = NotRequested
  /\ fsBudget = 0
  /\ \E env \in Environments :
       config = [env |-> env, loaded |-> FALSE, port |-> Unset, secretsDir |-> Unset,
                 watched |-> Unset]

\* node server.js: the module's top-level constants are evaluated and
\* chokidar.watch(SECRETS_DIR, ...) starts on the directory
LoadConfig ==
  /\ ~config.loaded
  /\ config' = LoadedConfig(config.env)
  /\ UNCHANGED <<fs, fsChanges, fsBudget, snapshot, alive, connected, lastMsg, lastActivity,
                 lastHeartbeat, watchEvents, timers, activityLog, lastSecretHash,
                 lastInodeData, reads, bcasts, lastPoll, debounceTimers,
                 pendingUpdateCount, retryTimer, lastKnown, signals, burst, lastRead,
                 kubectlWatcher, client, shutdown>>

SpecConfig == InitConfig /\ [][LoadConfig]_vars

\* the documented rule: SECRETS_PATH, or /app/secrets when it is not set
DocumentedSecretsDir(env) ==
  IF env.SECRETS_PATH \in {Unset, ""} THEN "/app/secrets" ELSE env.SECRETS_PATH

\* C26: the directory the server reads and watches is the value of
\* SECRETS_PATH, and /app/secrets when SECRETS_PATH is not set.
C26_SecretsDirFromSecretsPath ==
  config.loaded =>
    /\ config.secretsDir = DocumentedSecretsDir(config.env)
    /\ config.watched = DocumentedSecretsDir(config.env)

\* ------------------------------------------------------------------------
\* FairSequence: the reconciler with timers that fire, while signals keep
\* arriving and the volume changes behind them
\* ------------------------------------------------------------------------
NextSequence ==
  \/ \E n \in SilentNames : VolumeWrite(n, <<"y", " ">>)
  \/ handleKubectlUpdate
  \/ DebounceExpired
  \/ RetryTimerFired

\* setTimeout callbacks run
SequenceFairness ==
  /\ WF_vars(DebounceExpired)
  /\ WF_vars(RetryTimerFired)

FairSequence == InitReconciled /\ [][NextSequence]_vars /\ SequenceFairness

\* C27: a Reconciling sequence never goes past the maximum attempt, only a
\* retry read moves it and each retry read moves it one attempt further or
\* ends it, whatever signals arrive meanwhile; with timers that fire, every
\* sequence ends.
C27_SequenceTerminates ==
  /\ [](retryTimer <= MAX_RETRIES)
  /\ [][retryTimer # 0 =>
          \/ retryTimer' = retryTimer /\ ~RetryReadStep
          \/ RetryReadStep /\ retryTimer' \in {0, retryTimer + 1}]_vars
  /\ (retryTimer # 0) ~> (retryTimer = 0)

\* a sequence that ran to its end while further signals arrived
C27_Witness ==
  /\ retryTimer = 0
  /\ lastRead.by = "retry"
  /\ lastRead.count >= MAX_RETRIES + 1
  /\ signals >= 2
  /\ pendingUpdateCount > 0

Watchers == {"watcher", "parentWatcher", "tmpWatcher"}

InitShutdown ==
  /\ ServerStartFrom(InitialDirectories)
  /\ ReconcilerIdle
  /\ fsBudget = MaxWatchedChanges

ShutdownFrame ==
  UNCHANGED <<fs, fsChanges, fsBudget, snapshot, connected, lastMsg, lastActivity,
              lastHeartbeat, watchEvents, timers, activityLog, lastSecretHash,
              lastInodeData, reads, bcasts, lastPoll, debounceTimers, pendingUpdateCount,
              retryTimer, lastKnown, signals, burst, lastRead, kubectlWatcher, client,
              config>>

\* process.on('SIGINT'): watcher.close(), parentWatcher.close(), server.close(cb);
\* tmpWatcher is not closed and no interval is cleared
Sigint ==
  /\ alive
  /\ ~shutdown.requested
  /\ shutdown' = [requested |-> TRUE, closed |-> {"watcher", "parentWatcher"}]
  /\ UNCHANGED alive
  /\ ShutdownFrame

\* the callback of server.close(): it runs once no connection is left open,
\* and then process.exit(0)
ServerClosed ==
  /\ alive
  /\ shutdown.requested
  /\ connected = {}
  /\ alive' = FALSE
  /\ UNCHANGED shutdown
  /\ ShutdownFrame

\* a closed http server accepts no new connection
Accept(c) == ~shutdown.requested /\ Connection(c) /\ UNCHANGED shutdown

Leave(c) == Disconnect(c) /\ UNCHANGED shutdown

\* a closed chokidar watcher delivers nothing
WatcherDelivers(n) ==
  /\ "watcher" \notin shutdown.closed
  /\ WatcherAdd(n) \/ WatcherChange(n)
  /\ UNCHANGED shutdown

\* setInterval(monitorInodes, 300) keeps firing: nothing clears it
InodeInterval == monitorInodes /\ UNCHANGED shutdown

FileWritten(n, raw) == (CreateFile(n, raw) \/ WriteFile(n, raw)) /\ UNCHANGED shutdown

NextShutdown ==
  \/ \E n \in Names, raw \in WrittenContents : FileWritten(n, raw)
  \/ \E c \in Clients : Accept(c)
  \/ \E c \in Clients : Leave(c)
  \/ \E n \in Names : WatcherDelivers(n)
  \/ InodeInterval
  \/ Sigint
  \/ ServerClosed

SpecShutdown == InitShutdown /\ [][NextShutdown]_vars

\* C29: once SIGINT was received every watcher is closed and no
\* 'secrets-update' is emitted any more.
C29_QuietAfterSigint ==
  /\ [](shutdown.requested => shutdown.closed = Watchers)
  /\ [][shutdown.requested => bcasts' = bcasts]_vars

\* ------------------------------------------------------------------------
\* The inode monitor's map
\* ------------------------------------------------------------------------
\* the entries of the directory a scan can stat
Present(d) == {n \in Names : d[n] # Absent /\ ~StatThrows(d[n])}

\* C30: a scan of the inode monitor leaves its map holding only files that
\* are in the directory, so that a change is reported only for a file seen
\* by two consecutive scans.
C30_InodeMapHoldsPresentFiles ==
  [][lastInodeData' # lastInodeData => DOMAIN lastInodeData' \subseteq Present(fs)]_vars

====
